---- MODULE Spec2Model ----
(***************************************************************************)
(* State-machine model of the tree topology engine of CART/BART            *)
(* (src/tree.py): Node, BaseTree.filter / prule / grow / split / prune /   *)
(* change / swap / buildUniform and the terminal / internal node caches,   *)
(* of the BartTrees ensemble, and of the MCMC driver (src/samplers.py).    *)
(***************************************************************************)
EXTENDS Integers, Sequences, FiniteSets, TLC

VARIABLES
    X,              \* BaseTree.X: covariate matrix, X[row][feature]
    nmin,           \* BaseTree.nmin (min_samples_leaf)
    NodeId,         \* Node.NodeId: the class-level id counter
    head,           \* BaseTree.head: id of the root node
    nodes,          \* the live Node objects, by Id
    terminalNodes,  \* BaseTree.terminalNodes (ids, in list order)
    internalNodes,  \* BaseTree.internalNodes (ids, in list order)
    last,           \* the last call: operation, arguments, random draws, result
    other,          \* a second BaseTree over the same data: head and caches
    frames,         \* the buildUniform calls that are still to run
    bart,           \* a BartTrees object
    sampler         \* a Sampler, its steps and its MCMCSample

\* what the operations of one tree never touch
rest == <<other, frames, bart, sampler>>

\* the tree the operations act on
tree == <<X, nmin, NodeId, head, nodes, terminalNodes, internalNodes, last>>

vars == <<X, nmin, NodeId, head, nodes, terminalNodes, internalNodes, last, rest>>

\* Python's None (node references, feature indices and thresholds)
None == -1

\* what `last` records as the result of a call that ended in an
\* AttributeError: an attribute of None was read
AttributeError == -2

----------------------------------------------------------------------------
\* Bounds of the model

\* the id counter stops the model when NodeId + 2 would exceed this
MaxNodeId == 8
\* min_samples_leaf ranges over 1..MaxNmin
MaxNmin == 2
\* Node.NodeId at the time the tree is built ranges over 0..MaxFirstId
MaxFirstId == 1
\* thresholds passed to a direct split call range over 0..MaxThreshold
MaxThreshold == 1
\* where buildUniform is modelled, the id counter stops the model when
\* NodeId + 2 would exceed this
MaxBuildId == 7
\* where two trees are modelled, the id counter stops the model at this
MaxPairId == 6
\* the outcomes y[r] given to BartTrees range over -MaxY..MaxY,
MaxY == 1
\* the number of trees m over 0..MaxM
MaxM == 2
\* a Sampler gets at most MaxSteps steps
MaxSteps == 2
\* Sampler.run is called with burnin in 0..MaxBurnin,
MaxBurnin == 1
\* nsamples in 0..MaxSamples
MaxSamples == 2
\* and thin in 1..MaxThin
MaxThin == 2

\* 0-based matrix from a tuple of rows
Mat(rows) == [r \in 0..(Len(rows) - 1) |-> [c \in 0..(Len(rows[1]) - 1) |-> rows[r + 1][c + 1]]]

\* the covariate matrices the model is run on
DataSets ==
    { Mat(<< <<0, 0>>, <<0, 1>>, <<1, 0>>, <<1, 1>> >>),
      Mat(<< <<0, 1>>, <<1, 0>>, <<1, 1>>, <<2, 0>> >>) }

----------------------------------------------------------------------------
\* BaseTree.__init__: shape of the data

Rows == DOMAIN X
Features == DOMAIN X[0]
n_samples == Cardinality(Rows)
n_features == Cardinality(Features)

----------------------------------------------------------------------------
\* Node

\* Node.setThreshold
setThreshold(nd, n, feature, threshold) ==
    [nd EXCEPT ![n].feature = feature, ![n].threshold = threshold]

\* Node.__init__ that copies the parent's depth
NodeFlat(nd, id, parent, is_left) ==
    LET self == [Id        |-> id,
                 Parent    |-> parent,
                 Left      |-> None,
                 Right     |-> None,
                 feature   |-> None,
                 threshold |-> None,
                 is_left   |-> IF parent # None THEN is_left ELSE FALSE,
                 depth     |-> IF parent # None THEN nd[parent].depth ELSE 0]
        ext  == [i \in (DOMAIN nd) \cup {id} |-> IF i = id THEN self ELSE nd[i]]
    IN  IF parent = None THEN ext
        ELSE IF is_left THEN [ext EXCEPT ![parent].Left = id]
        ELSE [ext EXCEPT ![parent].Right = id]

\* Node.__init__ that ignores the is_left argument
NodeAlwaysLeft(nd, id, parent, is_left) ==
    LET self == [Id        |-> id,
                 Parent    |-> parent,
                 Left      |-> None,
                 Right     |-> None,
                 feature   |-> None,
                 threshold |-> None,
                 is_left   |-> parent # None,
                 depth     |-> IF parent # None THEN nd[parent].depth + 1 ELSE 0]
        ext  == [i \in (DOMAIN nd) \cup {id} |-> IF i = id THEN self ELSE nd[i]]
    IN  IF parent = None THEN ext
        ELSE IF is_left THEN [ext EXCEPT ![parent].Left = id]
        ELSE [ext EXCEPT ![parent].Right = id]

\* Node.__init__ with Id = id: the heap with the new node, registered with
\* its parent
Node(nd, id, parent, is_left) ==
    LET self == [Id        |-> id,
                 Parent    |-> parent,
                 Left      |-> None,
                 Right     |-> None,
                 feature   |-> None,
                 threshold |-> None,
                 is_left   |-> IF parent # None THEN is_left ELSE FALSE,
                 depth     |-> IF parent # None THEN nd[parent].depth + 1 ELSE 0]
        ext  == [i \in (DOMAIN nd) \cup {id} |-> IF i = id THEN self ELSE nd[i]]
    IN  IF parent = None THEN ext
        ELSE IF is_left THEN [ext EXCEPT ![parent].Left = id]
        ELSE [ext EXCEPT ![parent].Right = id]

\* ids of the nodes referenced from node n through Left / Right
RECURSIVE Reach(_, _)
Reach(nd, n) ==
    IF n = None \/ n \notin DOMAIN nd THEN {}
    ELSE {n} \cup Reach(nd, nd[n].Left) \cup Reach(nd, nd[n].Right)

\* the objects that stay alive once the tree no longer references the rest:
\* its own nodes and those of the other tree
release(nd, root) == [i \in Reach(nd, root) \cup Reach(nd, other.head) |-> nd[i]]

\* ids of the nodes referenced, through Left, Right or Parent, from a node in S
RECURSIVE Closure(_, _)
Closure(nd, S) ==
    LET T == S \cup (UNION {{nd[n].Left, nd[n].Right, nd[n].Parent} : n \in S}
                        \cap DOMAIN nd)
    IN  IF T = S THEN S ELSE Closure(nd, T)

----------------------------------------------------------------------------
\* BaseTree.filter

\* includeX with < in place of <= for a left child
RECURSIVE includeXStrict(_, _)
includeXStrict(nd, n) ==
    IF nd[n].Parent = None
    THEN [r \in Rows |-> [c \in Features |-> TRUE]]
    ELSE LET p  == nd[n].Parent
             up == includeXStrict(nd, p)
         IN  IF nd[p].feature = None
             THEN [r \in Rows |-> [c \in Features |-> up[r][c] /\ ~nd[n].is_left]]
             ELSE [r \in Rows |-> [c \in Features |->
                     up[r][c] /\ (c = nd[p].feature =>
                                     IF nd[n].is_left
                                     THEN X[r][c] <  nd[p].threshold
                                     ELSE X[r][c] >  nd[p].threshold)]]

\* includeX: per row and column, the conjunction of the inequalities of the
\* ancestors that split on that column. A parent without a rule (feature
\* and threshold None) makes the index [:, None] address every column and
\* the comparison with None, by Python 2's ordering of None below every
\* number, False for <= and True for >.
RECURSIVE includeX(_, _)
includeX(nd, n) ==
    IF nd[n].Parent = None
    THEN [r \in Rows |-> [c \in Features |-> TRUE]]
    ELSE LET p  == nd[n].Parent
             up == includeX(nd, p)
         IN  IF nd[p].feature = None
             THEN [r \in Rows |-> [c \in Features |-> up[r][c] /\ ~nd[n].is_left]]
             ELSE [r \in Rows |-> [c \in Features |->
                     up[r][c] /\ (c = nd[p].feature =>
                                     IF nd[n].is_left
                                     THEN X[r][c] <= nd[p].threshold
                                     ELSE X[r][c] >  nd[p].threshold)]]

\* an includeY that uses np.any
includeYAny(nd, n) ==
    LET ix == includeX(nd, n) IN [r \in Rows |-> \E c \in Features : ix[r][c]]

\* includeY = np.all(includeX, axis=1)
includeY(nd, n) ==
    LET ix == includeX(nd, n) IN [r \in Rows |-> \A c \in Features : ix[r][c]]

\* np.sum of a boolean row mask
npsum(mask) == Cardinality({r \in DOMAIN mask : mask[r]})

----------------------------------------------------------------------------
\* Cache recomputation

\* calcTerminalNodes_ that never descends into the Left subtree
RECURSIVE calcTerminalNodes_RightOnly(_, _)
calcTerminalNodes_RightOnly(nd, node) ==
    (IF nd[node].Right = None \/ nd[node].Left = None THEN <<node>> ELSE <<>>)
    \o (IF nd[node].Right # None THEN calcTerminalNodes_RightOnly(nd, nd[node].Right) ELSE <<>>)

\* calcTerminalNodes_ that visits the Left subtree before the Right one
RECURSIVE calcTerminalNodes_LeftFirst(_, _)
calcTerminalNodes_LeftFirst(nd, node) ==
    (IF nd[node].Right = None \/ nd[node].Left = None THEN <<node>> ELSE <<>>)
    \o (IF nd[node].Left # None THEN calcTerminalNodes_LeftFirst(nd, nd[node].Left) ELSE <<>>)
    \o (IF nd[node].Right # None THEN calcTerminalNodes_LeftFirst(nd, nd[node].Right) ELSE <<>>)

RECURSIVE calcTerminalNodes_(_, _)
calcTerminalNodes_(nd, node) ==
    (IF nd[node].Right = None \/ nd[node].Left = None THEN <<node>> ELSE <<>>)
    \o (IF nd[node].Right # None THEN calcTerminalNodes_(nd, nd[node].Right) ELSE <<>>)
    \o (IF nd[node].Left # None THEN calcTerminalNodes_(nd, nd[node].Left) ELSE <<>>)

calcTerminalNodes(nd, root) == calcTerminalNodes_(nd, root)

RECURSIVE calcInternalNodes_(_, _)
calcInternalNodes_(nd, node) ==
    (IF nd[node].Right # None /\ nd[node].Left # None THEN <<node>> ELSE <<>>)
    \o (IF nd[node].Right # None THEN calcInternalNodes_(nd, nd[node].Right) ELSE <<>>)
    \o (IF nd[node].Left # None THEN calcInternalNodes_(nd, nd[node].Left) ELSE <<>>)

calcInternalNodes(nd, root) == calcInternalNodes_(nd, root)

\* the elements of a list
Elems(s) == {s[i] : i \in 1..Len(s)}

----------------------------------------------------------------------------
\* a prule that selects the data with the row mask
pruleRows(nd, node, feature) ==
    LET idxY == includeY(nd, node)
        data == {r \in Rows : idxY[r]}
    IN  IF data = {} THEN {<<None, None>>}
        ELSE {<<feature, X[r][feature]>> : r \in data}

\* BaseTree.prule once the feature is drawn: the pairs the draw of idxD can
\* produce; <<None, None>> when the column of the feature has no data
pruleDrawn(nd, node, feature) ==
    LET idxX == includeX(nd, node)
        data == {r \in Rows : idxX[r][feature]}
    IN  IF data = {} THEN {<<None, None>>}
        ELSE {<<feature, X[r][feature]>> : r \in data}

\* BaseTree.prule: the (feature, threshold) pairs the two random draws can
\* produce for a node
prule(nd, node) == UNION {pruleDrawn(nd, node, feature) : feature \in Features}

----------------------------------------------------------------------------
\* BaseTree.split

\* the test of split with > in place of >=
enoughStrict(nl, nr) == nl > nmin /\ nr > nmin

\* a test that is content with one child that has enough points
enoughOne(nl, nr) == nl >= nmin \/ nr >= nmin

\* a test that looks at the left child only
enoughLeft(nl, nr) == nl >= nmin

\* "only split if it yields at least nmin points per child"
enough(nl, nr) == nl >= nmin /\ nr >= nmin

\* the objects that stay alive when the caches are left as they are: those
\* of release and the ones the two lists still reference
retain(nd, root) ==
    LET held == Closure(nd, ({root} \cup Elems(terminalNodes) \cup Elems(internalNodes))
                                \cap DOMAIN nd)
    IN  [i \in held \cup Reach(nd, other.head) |-> nd[i]]

\* a rollback that drops the children and leaves the rule on the parent
rollbackKeepsRule(nd, parent) ==
    LET n2 == [nd EXCEPT ![parent].Left = None, ![parent].Right = None]
    IN  retain(n2, head)

\* the else branch of split: the rule is cleared and both children dropped
rollback(nd, parent) ==
    LET n1 == setThreshold(nd, parent, None, None)
        n2 == [n1 EXCEPT ![parent].Left = None, ![parent].Right = None]
    IN  retain(n2, head)

\* a split that builds the right child before the left one
splitRightFirst(parent, feature, threshold) ==
    LET n1   == Node(nodes, NodeId, parent, FALSE)
        n2   == Node(n1, NodeId + 1, parent, TRUE)
        n3   == setThreshold(n2, parent, feature, threshold)
        fyl  == includeY(n3, NodeId + 1)
        fyr  == includeY(n3, NodeId)
    IN  IF enough(npsum(fyl), npsum(fyr))
        THEN [nodes         |-> release(n3, head),
              NodeId        |-> NodeId + 2,
              terminalNodes |-> calcTerminalNodes(n3, head),
              internalNodes |-> calcInternalNodes(n3, head),
              ret           |-> <<NodeId + 1, NodeId>>]
        ELSE [nodes         |-> rollback(n3, parent),
              NodeId        |-> NodeId + 2,
              terminalNodes |-> terminalNodes,
              internalNodes |-> internalNodes,
              ret           |-> <<None, None>>]

\* a split whose two Node constructions leave the id counter where it was
splitReusesIds(parent, feature, threshold) ==
    LET n1   == Node(nodes, NodeId, parent, TRUE)
        n2   == Node(n1, NodeId + 1, parent, FALSE)
        n3   == setThreshold(n2, parent, feature, threshold)
        fyl  == includeY(n3, NodeId)
        fyr  == includeY(n3, NodeId + 1)
    IN  IF enough(npsum(fyl), npsum(fyr))
        THEN [nodes         |-> release(n3, head),
              NodeId        |-> NodeId,
              terminalNodes |-> calcTerminalNodes(n3, head),
              internalNodes |-> calcInternalNodes(n3, head),
              ret           |-> <<NodeId, NodeId + 1>>]
        ELSE [nodes         |-> rollback(n3, parent),
              NodeId        |-> NodeId,
              terminalNodes |-> terminalNodes,
              internalNodes |-> internalNodes,
              ret           |-> <<None, None>>]

\* the state after split(parent, feature, threshold), and what it returns
split(parent, feature, threshold) ==
    LET n1   == Node(nodes, NodeId, parent, TRUE)
        n2   == Node(n1, NodeId + 1, parent, FALSE)
        n3   == setThreshold(n2, parent, feature, threshold)
        fyl  == includeY(n3, NodeId)
        fyr  == includeY(n3, NodeId + 1)
    IN  IF enough(npsum(fyl), npsum(fyr))
        THEN [nodes         |-> release(n3, head),
              NodeId        |-> NodeId + 2,
              terminalNodes |-> calcTerminalNodes(n3, head),
              internalNodes |-> calcInternalNodes(n3, head),
              ret           |-> <<NodeId, NodeId + 1>>]
        ELSE [nodes         |-> rollback(n3, parent),
              NodeId        |-> NodeId + 2,
              terminalNodes |-> terminalNodes,
              internalNodes |-> internalNodes,
              ret           |-> <<None, None>>]

\* what `last` records of a call: the call, its draws and result, and the two
\* caches as they were when it was made
Call(op, node, feature, threshold, child, ret) ==
    [op |-> op, node |-> node, feature |-> feature, threshold |-> threshold,
     child |-> child, ret |-> ret,
     terminal0 |-> terminalNodes, internal0 |-> internalNodes]

\* a direct call of split on a terminal node
SplitCall ==
    /\ NodeId + 2 <= MaxNodeId
    /\ \E i \in 1..Len(terminalNodes), feature \in Features, threshold \in 0..MaxThreshold :
          LET parent == terminalNodes[i]
              s == split(parent, feature, threshold)
          IN  /\ nodes' = s.nodes
              /\ NodeId' = s.NodeId
              /\ terminalNodes' = s.terminalNodes
              /\ internalNodes' = s.internalNodes
              /\ last' = Call("split", parent, feature, threshold, None, s.ret)
    /\ UNCHANGED <<X, nmin, head, rest>>

\* BaseTree.grow
grow ==
    /\ NodeId + 2 <= MaxNodeId
    /\ \E i \in 1..Len(terminalNodes) :
          LET rnode == terminalNodes[i] IN
          \E rule \in prule(nodes, rnode) :
             IF rule[1] = None \/ rule[2] = None
             THEN /\ UNCHANGED <<nodes, NodeId, terminalNodes, internalNodes>>
                  /\ last' = Call("grow", rnode, None, None, None, <<>>)
             ELSE LET s == split(rnode, rule[1], rule[2])
                  IN  /\ nodes' = s.nodes
                      /\ NodeId' = s.NodeId
                      /\ terminalNodes' = s.terminalNodes
                      /\ internalNodes' = s.internalNodes
                      /\ last' = Call("grow", rnode, rule[1], rule[2], None, s.ret)
    /\ UNCHANGED <<X, nmin, head, rest>>

----------------------------------------------------------------------------
\* BaseTree.prune

\* dparents that accepts a parent with a single listed child
dparentsAny(nd, lst) ==
    {p \in {nd[lst[i]].Parent : i \in 1..Len(lst)} \ {None} :
        Cardinality({i \in 1..Len(lst) : nd[lst[i]].Parent = p}) >= 1}

\* collections.Counter(parents): how often p is the Parent of a listed node
Counter(nd, lst, p) == Cardinality({i \in 1..Len(lst) : nd[lst[i]].Parent = p})

\* the parents with exactly one listed (terminal) child
dparentsOne(nd, lst) ==
    {p \in {nd[lst[i]].Parent : i \in 1..Len(lst)} : Counter(nd, lst, p) = 1}

\* the parents with two listed (terminal) children
dparents(nd, lst) ==
    {p \in {nd[lst[i]].Parent : i \in 1..Len(lst)} : Counter(nd, lst, p) = 2}

\* an unlink that forgets parent.Right = None
unlinkLeftOnly(nd, parent) == [nd EXCEPT ![parent].Left = None]

\* parent.Left = None; parent.Right = None
unlink(nd, parent) ==
    [nd EXCEPT ![parent].Left = None, ![parent].Right = None]

prune ==
    /\ IF Len(terminalNodes) = 0 \/ dparents(nodes, terminalNodes) = {}
       THEN /\ UNCHANGED <<nodes, terminalNodes, internalNodes>>
            /\ last' = Call("prune", None, None, None, None, <<>>)
       ELSE \E parent \in dparents(nodes, terminalNodes) :
               LET n1 == unlink(nodes, parent)
               IN  /\ nodes' = release(n1, head)
                   /\ terminalNodes' = calcTerminalNodes(n1, head)
                   /\ internalNodes' = calcInternalNodes(n1, head)
                   /\ last' = Call("prune", parent, None, None, None, <<>>)
    /\ UNCHANGED <<X, nmin, head, NodeId, rest>>

----------------------------------------------------------------------------
\* BaseTree.change

\* the test of change with "and" in place of "or"
unacceptableBoth(nl, nr) == nl < nmin /\ nr < nmin

\* an undo that, like the rollback of split, clears the rule
undoClears(nd, rnode, feature0, threshold0) == setThreshold(nd, rnode, None, None)

\* an undo that, like the rollback of split, also drops the children
undoUnlinks(nd, rnode, feature0, threshold0) ==
    [setThreshold(nd, rnode, feature0, threshold0)
        EXCEPT ![rnode].Left = None, ![rnode].Right = None]

\* "Undo, unacceptable split"
unacceptable(nl, nr) == nl < nmin \/ nr < nmin

\* the undo of change
undo(nd, rnode, feature0, threshold0) == setThreshold(nd, rnode, feature0, threshold0)

\* the heap after change has tried (featureN, thresholdN) on rnode
tryRule(nd, rnode, featureN, thresholdN) ==
    LET feature0   == nd[rnode].feature
        threshold0 == nd[rnode].threshold
        n1  == setThreshold(nd, rnode, featureN, thresholdN)
        fyl == includeY(n1, n1[rnode].Left)
        fyr == includeY(n1, n1[rnode].Right)
    IN  IF unacceptable(npsum(fyl), npsum(fyr))
        THEN undo(n1, rnode, feature0, threshold0)
        ELSE n1

change ==
    /\ IF Len(internalNodes) = 0
       THEN /\ UNCHANGED nodes
            /\ last' = Call("change", None, None, None, None, <<>>)
       ELSE \E i \in 1..Len(internalNodes) :
               LET rnode == internalNodes[i] IN
               \E rule \in prule(nodes, rnode) :
                  IF rule[1] = None \/ rule[2] = None
                  THEN /\ UNCHANGED nodes
                       /\ last' = Call("change", rnode, None, None, None, <<>>)
                  ELSE IF nodes[rnode].Left = None
                  THEN \* filter(rnode.Left) reads None.Parent, the rule is set
                       /\ nodes' = setThreshold(nodes, rnode, rule[1], rule[2])
                       /\ last' = Call("change", rnode, rule[1], rule[2], None,
                                       <<AttributeError>>)
                  ELSE /\ nodes' = tryRule(nodes, rnode, rule[1], rule[2])
                       /\ last' = Call("change", rnode, rule[1], rule[2], None, <<>>)
    /\ UNCHANGED <<X, nmin, head, NodeId, terminalNodes, internalNodes, rest>>

----------------------------------------------------------------------------
\* BaseTree.swap

\* pnodes without the test that the child is internal too
pnodesAll(nd, lst) == Elems(lst)

\* the internal nodes that are the Parent of an internal node
pnodes(nd, lst) ==
    {nd[lst[i]].Parent : i \in {j \in 1..Len(lst) : nd[lst[j]].Parent \in Elems(lst)}}

\* both children carry the same rule
sameRule(nd, lnode, rnode) ==
    nd[lnode].feature = nd[rnode].feature /\ nd[lnode].threshold = nd[rnode].threshold

\* a three-way swap that forgets the right child
swapBothLeftOnly(nd, pnode) ==
    LET lnode   == nd[pnode].Left
        pfeat   == nd[pnode].feature
        pthresh == nd[pnode].threshold
        cfeat   == nd[lnode].feature
        cthresh == nd[lnode].threshold
        n1 == setThreshold(nd, pnode, cfeat, cthresh)
    IN  setThreshold(n1, lnode, pfeat, pthresh)

\* the parent takes the children's rule, both children the parent's
swapBoth(nd, pnode) ==
    LET lnode   == nd[pnode].Left
        rnode   == nd[pnode].Right
        pfeat   == nd[pnode].feature
        pthresh == nd[pnode].threshold
        cfeat   == nd[lnode].feature
        cthresh == nd[lnode].threshold
        n1 == setThreshold(nd, pnode, cfeat, cthresh)
        n2 == setThreshold(n1, lnode, pfeat, pthresh)
    IN  setThreshold(n2, rnode, pfeat, pthresh)

\* the children of pnode that are in the internal list
cnodes(nd, lst, pnode) == {nd[pnode].Left, nd[pnode].Right} \cap Elems(lst)

\* an exchange that forgets to give the child's rule to the parent
swapOneHalf(nd, pnode, cnode) ==
    setThreshold(nd, cnode, nd[pnode].feature, nd[pnode].threshold)

\* cnode and pnode exchange their rules
swapOne(nd, pnode, cnode) ==
    LET pfeat   == nd[pnode].feature
        pthresh == nd[pnode].threshold
        cfeat   == nd[cnode].feature
        cthresh == nd[cnode].threshold
        n1 == setThreshold(nd, cnode, pfeat, pthresh)
    IN  setThreshold(n1, pnode, cfeat, cthresh)

swap ==
    /\ IF Len(internalNodes) = 0 \/ pnodes(nodes, internalNodes) = {}
       THEN /\ UNCHANGED nodes
            /\ last' = Call("swap", None, None, None, None, <<>>)
       ELSE \E pnode \in pnodes(nodes, internalNodes) :
               LET lnode == nodes[pnode].Left
                   rnode == nodes[pnode].Right
               IN  IF lnode = None
                   THEN \* lnode.feature is read on None
                        /\ UNCHANGED nodes
                        /\ last' = Call("swap", pnode, None, None, None,
                                        <<AttributeError>>)
                   ELSE IF sameRule(nodes, lnode, rnode)
                   THEN /\ nodes' = swapBoth(nodes, pnode)
                        /\ last' = Call("swap", pnode, None, None, None,
                                        <<pnode, lnode, rnode>>)
                   ELSE \E cnode \in cnodes(nodes, internalNodes, pnode) :
                           /\ nodes' = swapOne(nodes, pnode, cnode)
                           /\ last' = Call("swap", pnode, None, None, cnode, <<>>)
    /\ UNCHANGED <<X, nmin, head, NodeId, terminalNodes, internalNodes, rest>>

----------------------------------------------------------------------------
\* BaseTree.__init__: a single-node tree over the data

\* no second tree
NoTree == [head |-> None, terminalNodes |-> <<>>, internalNodes |-> <<>>]

\* an object that has not been constructed
Absent == [pc |-> "absent"]

\* the tree after BaseTree.__init__
NewTree ==
    /\ X \in DataSets
    /\ nmin \in 1..MaxNmin
    /\ head \in 0..MaxFirstId
    /\ NodeId = head + 1
    /\ nodes = Node(<<>>, head, None, None)
    /\ terminalNodes = <<head>>
    /\ internalNodes = <<>>
    /\ last = Call("init", None, None, None, None, <<>>)

Init ==
    /\ NewTree
    /\ other = NoTree
    /\ frames = <<>>
    /\ bart = Absent
    /\ sampler = Absent

Next == grow \/ SplitCall \/ prune \/ change \/ swap

Spec == Init /\ [][Next]_vars

----------------------------------------------------------------------------
\* BaseTree.buildUniform, one action per call of the recursion

\* one call buildUniform(node, alpha, beta, depth); pending are the calls
\* that its callers still have to make.  With 0 < alpha < 1 the draw of rand
\* can fall on either side of psplit at every depth.
buildUniformCall(node, depth, pending) ==
    \/ \* rand >= psplit
       /\ UNCHANGED <<nodes, NodeId, terminalNodes, internalNodes>>
       /\ frames' = pending
       /\ last' = Call("buildUniform", node, None, None, None, <<>>)
    \/ \* rand < psplit
       \E rule \in prule(nodes, node) :
          IF rule[1] = None \/ rule[2] = None
          THEN /\ UNCHANGED <<nodes, NodeId, terminalNodes, internalNodes>>
               /\ frames' = pending
               /\ last' = Call("buildUniform", node, None, None, None, <<None, None>>)
          ELSE /\ NodeId + 2 <= MaxBuildId
               /\ LET s == split(node, rule[1], rule[2])
                  IN  /\ nodes' = s.nodes
                      /\ NodeId' = s.NodeId
                      /\ terminalNodes' = s.terminalNodes
                      /\ internalNodes' = s.internalNodes
                      /\ frames' = IF s.ret[1] # None /\ s.ret[2] # None
                                   THEN << [node |-> s.ret[1], depth |-> depth + 1],
                                           [node |-> s.ret[2], depth |-> depth + 1] >>
                                        \o pending
                                   ELSE pending
                      /\ last' = Call("buildUniform", node, rule[1], rule[2], None, s.ret)

\* CartTree.set_starting_value: the call of buildUniform on the root
set_starting_value ==
    /\ frames = <<>>
    /\ buildUniformCall(head, 0, <<>>)
    /\ UNCHANGED <<X, nmin, head, other, bart, sampler>>

\* the next call of the recursion: the left subtree is built before the right
buildUniform ==
    /\ frames # <<>>
    /\ buildUniformCall(Head(frames).node, Head(frames).depth, Tail(frames))
    /\ UNCHANGED <<X, nmin, head, other, bart, sampler>>

\* the proposals, made while no build is under way
Proposal ==
    /\ frames = <<>>
    /\ grow \/ prune \/ change \/ swap
    /\ NodeId' <= MaxBuildId

\* the objects the root and the two lists tl, il keep alive
heldBy(nd, root, tl, il) ==
    LET held == Closure(nd, ({root} \cup Elems(tl) \cup Elems(il)) \cap DOMAIN nd)
    IN  [i \in held \cup Reach(nd, other.head) |-> nd[i]]

\* a caller's tree.calcTerminalNodes()
calcTerminalNodesCall ==
    /\ frames = <<>>
    /\ terminalNodes' = calcTerminalNodes(nodes, head)
    /\ nodes' = heldBy(nodes, head, terminalNodes', internalNodes)
    /\ last' = Call("calcTerminalNodes", None, None, None, None, <<>>)
    /\ UNCHANGED <<X, nmin, head, NodeId, internalNodes, rest>>

\* a caller's tree.calcInternalNodes()
calcInternalNodesCall ==
    /\ frames = <<>>
    /\ internalNodes' = calcInternalNodes(nodes, head)
    /\ nodes' = heldBy(nodes, head, terminalNodes, internalNodes')
    /\ last' = Call("calcInternalNodes", None, None, None, None, <<>>)
    /\ UNCHANGED <<X, nmin, head, NodeId, terminalNodes, rest>>

\* min_samples_leaf = 0 is accepted by BaseTree.__init__
InitBuild ==
    /\ X \in DataSets
    /\ nmin \in 0..MaxNmin
    /\ head \in 0..MaxFirstId
    /\ NodeId = head + 1
    /\ nodes = Node(<<>>, head, None, None)
    /\ terminalNodes = <<head>>
    /\ internalNodes = <<>>
    /\ last = Call("init", None, None, None, None, <<>>)
    /\ other = NoTree
    /\ frames = <<>>
    /\ bart = Absent
    /\ sampler = Absent

NextBuild ==
    \/ Proposal
    \/ set_starting_value
    \/ buildUniform
    \/ calcTerminalNodesCall
    \/ calcInternalNodesCall

SpecBuild == InitBuild /\ [][NextBuild]_vars

----------------------------------------------------------------------------
\* Two trees over the same data

\* a constructor that gives the new tree the head of the existing one
BaseTreeSameHead(nd, id) ==
    [nodes |-> nd, NodeId |-> id, head |-> head,
     terminalNodes |-> <<head>>, internalNodes |-> <<>>]

\* BaseTree.__init__ when the id counter is at id: the heap with the new
\* head, the counter, and the attributes of the new tree
BaseTree(nd, id) ==
    [nodes |-> Node(nd, id, None, None), NodeId |-> id + 1, head |-> id,
     terminalNodes |-> <<id>>, internalNodes |-> <<>>]

\* a second tree is constructed
BaseTree__init__ ==
    /\ other = NoTree
    /\ NodeId + 1 <= MaxPairId
    /\ LET t == BaseTree(nodes, NodeId)
       IN  /\ nodes' = t.nodes
           /\ NodeId' = t.NodeId
           /\ other' = [head |-> t.head, terminalNodes |-> t.terminalNodes,
                        internalNodes |-> t.internalNodes]
    /\ last' = Call("BaseTree", None, None, None, None, <<>>)
    /\ UNCHANGED <<X, nmin, head, terminalNodes, internalNodes, frames, bart, sampler>>

\* the caller turns to the other tree: the calls that follow are made on it
Turn ==
    /\ other # NoTree
    /\ head' = other.head
    /\ terminalNodes' = other.terminalNodes
    /\ internalNodes' = other.internalNodes
    /\ other' = [head |-> head, terminalNodes |-> terminalNodes,
                 internalNodes |-> internalNodes]
    /\ last' = Call("turn", None, None, None, None, <<>>)
    /\ UNCHANGED <<X, nmin, NodeId, nodes, frames, bart, sampler>>

\* the calls on the tree the caller has turned to, while the id counter is
\* within MaxPairId
OnTree == Next /\ NodeId' <= MaxPairId

NextTrees == OnTree \/ BaseTree__init__ \/ Turn

SpecTrees == Init /\ [][NextTrees]_vars

----------------------------------------------------------------------------
\* BartTree and BartTrees

\* the quotient n / d of two integers, kept exact: den > 0, or den = 0 for
\* the inf and nan of a division by zero
Frac(n, d) == IF d < 0 THEN [num |-> 0 - n, den |-> 0 - d] ELSE [num |-> n, den |-> d]

\* np.min and np.max of a vector of integers
npmin(y) == CHOOSE v \in {y[r] : r \in DOMAIN y} : \A r \in DOMAIN y : v <= y[r]
npmax(y) == CHOOSE v \in {y[r] : r \in DOMAIN y} : \A r \in DOMAIN y : v >= y[r]

\* "Rescale y to lie between -0.5 and 0.5": the three in-place statements
rescale(y) ==
    LET y1 == [r \in DOMAIN y |-> y[r] + npmin(y)]
        y2 == [r \in DOMAIN y |-> Frac(y1[r], npmax(y1))]
    IN  [r \in DOMAIN y |-> Frac(2 * y2[r].num - y2[r].den, 2 * y2[r].den)]

\* BartTree.__init__(X, y, alpha, beta) with the id counter at id:
\* BaseTree.__init__ builds the head with min_samples_leaf = 5, k is set, and
\* the name linear_model, which tree.py neither imports nor defines, raises
\* NameError; nu, q, lamb are not reached and a is no attribute of a BartTree
BartTree(id) ==
    [raised |-> TRUE,
     NodeId |-> BaseTree(<<>>, id).NodeId,
     self   |-> [head |-> BaseTree(<<>>, id).head, nmin |-> 5, k |-> 2, a |-> None]]

\* "for m in range(self.m): self.trees.append(BartTree(...))" from tree j on
RECURSIVE appendTrees(_, _, _)
appendTrees(s, id, j) ==
    IF j >= s.m THEN [bart |-> [s EXCEPT !.pc = "built"], NodeId |-> id]
    ELSE LET t == BartTree(id)
         IN  IF t.raised THEN [bart |-> [s EXCEPT !.pc = "raised"], NodeId |-> t.NodeId]
             ELSE appendTrees([s EXCEPT !.trees = Append(@, t.self)], t.NodeId, j + 1)

\* a float64 that lies at or next to an integer: the integer, and how many
\* doubles above it (below it when negative) the value is; 0 is the integer
\* itself
Double(near, ulps) == [near |-> near, ulps |-> ulps]

\* the rounding that "0.5 / self.k / np.sqrt(self.m)" and
\* "1.0 / (self.sigmu**2)" leave in a for k = 2, in doubles away from
\* 4 * k^2 * m: each of np.sqrt, the divisions and the square rounds to the
\* nearest double, so sigmu is 0.25, a is 16.0 for m = 1, but sigmu is
\* 0.17677669529663687, a is 32.00000000000001 for m = 2, and
\* 47.999999999999986 for m = 3; for m = 0 sigmu is inf and a is 0.0
sigmuRounding(m) ==
    CASE m \in {0, 1, 4, 5} -> 0
      [] m \in {2, 8}       -> 1
      [] m \in {3, 6}       -> 0 - 2
      [] m = 7              -> 2

\* BartTrees.__init__(X, y, m): a is 1 / sigmu^2 with sigmu = 0.5 / k / sqrt(m),
\* computed in float64: 4 * k^2 * m up to the rounding of the operations
BartTrees(y, m) ==
    LET k == 2
    IN  [pc |-> "init", y0 |-> y, y |-> rescale(y), k |-> k, m |-> m, mumu |-> 0,
         a |-> Double(4 * k * k * m, sigmuRounding(m)), trees |-> <<>>,
         fit |-> "none", mtrainfits |-> <<>>, mtotalfit |-> None]

\* the construction of an ensemble
BartTrees__init__ ==
    /\ bart = Absent
    /\ \E y \in [Rows -> (0 - MaxY)..MaxY], m \in 0..MaxM :
          LET r == appendTrees(BartTrees(y, m), NodeId, 0)
          IN  /\ bart' = r.bart
              /\ NodeId' = r.NodeId
    /\ UNCHANGED <<X, nmin, head, nodes, terminalNodes, internalNodes, last,
                   other, frames, sampler>>

\* BartTrees.regressionLnlike: the first statement that is evaluated reads a
\* name that is defined nowhere (y, mtotalfit in the loop; yData after it)
\* and raises NameError; no fit is computed
regressionLnlike ==
    /\ bart.pc = "built"
    /\ bart.fit = "none"
    /\ bart' = [bart EXCEPT !.fit = "raised"]
    /\ UNCHANGED <<tree, other, frames, sampler>>

InitBart ==
    /\ NewTree
    /\ other = NoTree
    /\ frames = <<>>
    /\ bart = Absent
    /\ sampler = Absent

NextBart == BartTrees__init__ \/ regressionLnlike

SpecBart == InitBart /\ [][NextBart]_vars

----------------------------------------------------------------------------
\* Sampler and MCMCSample (src/samplers.py)

\* the contents np.empty can leave in an element that nothing has written,
\* whatever the memory held: a value that is no draw (None), 0, or 1, a
\* number that a draw can also take
Garbage == {None, 0, 1}

\* the name a file of samples gives that no step's parameter has
FileName == MaxSteps + 1

\* the names read from the first line of a file
FileNames == {1, FileName}

\* the one-dimensional array np.genfromtxt reads from a file with two
\* numbers
Traces == {<<1, 0>>}

\* Sampler.__init__: no steps, an MCMCSample with an empty dictionary.
\* value[j] counts the draws of the parameter of step j, calls lists the
\* do_step calls, arrays holds the numpy arrays by identity and ndim their
\* number of axes, samples maps a parameter name to its array, got is the
\* array get_samples returned.
NewSampler ==
    [pc          |-> "new",
     sample_size |-> 0,
     burnin      |-> 0,
     thin        |-> 1,
     steps       |-> <<>>,
     value       |-> <<>>,
     calls       |-> <<>>,
     niter       |-> 0,
     i           |-> 0,
     currval     |-> 0,
     arrays      |-> <<>>,
     ndim        |-> <<>>,
     samples     |-> <<>>,
     got         |-> None,
     gotName     |-> None]

\* step.do_step() of step j: one more draw of its parameter
do_step(s, j) == [s EXCEPT !.value[j] = @ + 1, !.calls = Append(@, j)]

\* "for step in self._steps: step.do_step()" from step j on: one iteration
RECURSIVE stepsFrom(_, _)
stepsFrom(s, j) ==
    IF j > Len(s.steps) THEN [s EXCEPT !.niter = @ + 1]
    ELSE stepsFrom(do_step(s, j), j + 1)

\* Sampler.iterate(niter, burnin_stage)
RECURSIVE iterate(_, _)
iterate(s, niter) ==
    IF niter <= 0 THEN s ELSE iterate(stepsFrom(s, 1), niter - 1)

\* the arrays that are still referenced when ref is
keep(arrays, samples, ref) ==
    [a \in {samples[name] : name \in DOMAIN samples} \cup ({ref} \ {None}) |-> arrays[a]]

\* the steps whose parameter is tracked
tracked(s) == {j \in 1..Len(s.steps) : s.steps[j].track}

\* Sampler._allocate_arrays: a new array of sample_size elements for every
\* step whose parameter is tracked, stored under the parameter's name; the
\* parameter of step j has name j, its array the identity j, and mem is what
\* np.empty finds in the memory of the arrays
allocate_arrays(s, mem) ==
    LET samples == [name \in (DOMAIN s.samples) \cup tracked(s) |->
                       IF name \in tracked(s) THEN name ELSE s.samples[name]]
        ext     == [a \in (DOMAIN s.arrays) \cup tracked(s) |->
                       IF a \in tracked(s) THEN mem[a] ELSE s.arrays[a]]
        dim     == [a \in (DOMAIN s.arrays) \cup tracked(s) |->
                       IF a \in tracked(s) THEN 1 ELSE s.ndim[a]]
    IN  [s EXCEPT !.samples = samples,
                  !.arrays  = keep(ext, samples, s.got),
                  !.ndim    = keep(dim, samples, s.got)]

\* Sampler.start: starting values, then the arrays
start(s, mem) == allocate_arrays([s EXCEPT !.value = [j \in 1..Len(s.steps) |-> 0]], mem)

\* Sampler.save_values from step j on; samples[name] raises KeyError when
\* the dictionary has no entry for the name, and the assignment IndexError
\* when the array is shorter than the index
RECURSIVE save_valuesFrom(_, _)
save_valuesFrom(s, j) ==
    IF j > Len(s.steps) THEN s
    ELSE IF j \notin DOMAIN s.samples THEN [s EXCEPT !.pc = "raised"]
    ELSE IF s.currval + 1 > Len(s.arrays[s.samples[j]]) THEN [s EXCEPT !.pc = "raised"]
    ELSE save_valuesFrom(
            [s EXCEPT !.arrays[s.samples[j]][s.currval + 1] = s.value[j]], j + 1)

save_values(s) == save_valuesFrom(s, 1)

\* Sampler.add_step
add_step ==
    /\ sampler.pc = "new"
    /\ Len(sampler.steps) < MaxSteps
    /\ \E track \in BOOLEAN :
          sampler' = [sampler EXCEPT !.steps = Append(@, [name  |-> Len(@) + 1,
                                                          track |-> track])]
    /\ UNCHANGED <<tree, other, frames, bart>>

\* Sampler.run up to the end of the burn-in stage
run ==
    /\ sampler.pc = "new"
    /\ \E burnin \in 0..MaxBurnin, nsamples \in 0..MaxSamples, thin \in 1..MaxThin :
       \E mem \in [tracked(sampler) -> [1..nsamples -> Garbage]] :
          LET s0 == [sampler EXCEPT !.burnin = burnin, !.sample_size = nsamples,
                                    !.thin = thin]
              s1 == iterate(start(s0, mem), burnin)
          IN  sampler' = [s1 EXCEPT !.currval = 0, !.i = 0,
                                    !.pc = IF nsamples = 0 THEN "done" ELSE "sampling"]
    /\ UNCHANGED <<tree, other, frames, bart>>

\* one pass of "for i in xrange(self.sample_size)" of Sampler.run
sample ==
    /\ sampler.pc = "sampling"
    /\ LET s1 == IF sampler.thin = 1 THEN stepsFrom(sampler, 1)
                 ELSE iterate(sampler, sampler.thin)
           s2 == save_values(s1)
       IN  sampler' = IF s2.pc = "raised" THEN s2
                      ELSE [s2 EXCEPT !.currval = s2.i + 1,
                                      !.i = @ + 1,
                                      !.pc = IF s2.i + 1 = s2.sample_size
                                             THEN "done" ELSE "sampling"]
    /\ UNCHANGED <<tree, other, frames, bart>>

\* a get_samples that returns the stored array itself
get_samplesSame(s, name) == [s EXCEPT !.got = s.samples[name], !.gotName = name]

\* MCMCSample.get_samples(name): self.samples[name].copy() is a new array
\* with the elements and the shape of the stored one
get_samples(s, name) ==
    LET new == 0
        ext == [a \in (DOMAIN s.arrays) \cup {new} |->
                   IF a = new THEN s.arrays[s.samples[name]] ELSE s.arrays[a]]
        dim == [a \in (DOMAIN s.arrays) \cup {new} |->
                   IF a = new THEN s.ndim[s.samples[name]] ELSE s.ndim[a]]
    IN  [s EXCEPT !.arrays = keep(ext, s.samples, new),
                  !.ndim   = keep(dim, s.samples, new),
                  !.got = new, !.gotName = name]

\* the identity of the array that a[:, np.newaxis] makes of array a
viewOf(a) == 0 - a - 1

\* MCMCSample.newaxis: every entry with one axis is replaced by another
\* array object of shape (n, 1) over the same elements
newaxis(s) ==
    LET flat    == {name \in DOMAIN s.samples : s.ndim[s.samples[name]] = 1}
        samples == [name \in DOMAIN s.samples |->
                       IF name \in flat THEN viewOf(s.samples[name]) ELSE s.samples[name]]
        views   == {viewOf(s.samples[name]) : name \in flat}
        ext     == [a \in (DOMAIN s.arrays) \cup views |->
                       IF a \in views THEN s.arrays[viewOf(a)] ELSE s.arrays[a]]
        dim     == [a \in (DOMAIN s.arrays) \cup views |->
                       IF a \in views THEN 2 ELSE s.ndim[a]]
    IN  [s EXCEPT !.samples = samples,
                  !.arrays  = keep(ext, samples, s.got),
                  !.ndim    = keep(dim, samples, s.got)]

\* MCMCSample.generate_from_file([fname]) for a file with the given first
\* line and data: the entry is added unless the name has one, then newaxis
generate_from_file(s, name, trace) ==
    IF name \in DOMAIN s.samples THEN newaxis(s)
    ELSE LET id == name
         IN  newaxis([s EXCEPT
                 !.samples = [n \in (DOMAIN s.samples) \cup {name} |->
                                 IF n = name THEN id ELSE s.samples[n]],
                 !.arrays  = [a \in (DOMAIN s.arrays) \cup {id} |->
                                 IF a = id THEN trace ELSE s.arrays[a]],
                 !.ndim    = [a \in (DOMAIN s.arrays) \cup {id} |->
                                 IF a = id THEN 1 ELSE s.ndim[a]]])

\* the caller has the samples of a parameter returned, once run has ended
GetSamples ==
    /\ sampler.pc \in {"done", "raised"}
    /\ \E name \in DOMAIN sampler.samples : sampler' = get_samples(sampler, name)
    /\ UNCHANGED <<tree, other, frames, bart>>

\* the caller overwrites an element of the array it had returned
Modify ==
    /\ sampler.pc \in {"done", "raised"}
    /\ sampler.got # None
    /\ \E k \in DOMAIN sampler.arrays[sampler.got] :
          /\ sampler.arrays[sampler.got][k] # 0
          /\ sampler' = [sampler EXCEPT !.arrays[sampler.got][k] = 0]
    /\ UNCHANGED <<tree, other, frames, bart>>

\* the caller's mcmc_samples.newaxis(), before or after a run
NewAxis ==
    /\ sampler.pc \in {"new", "done", "raised"}
    /\ sampler' = newaxis(sampler)
    /\ UNCHANGED <<tree, other, frames, bart>>

\* the caller's mcmc_samples.generate_from_file([fname]), before or after
\* a run
GenerateFromFile ==
    /\ sampler.pc \in {"new", "done", "raised"}
    /\ \E name \in FileNames, trace \in Traces :
          sampler' = generate_from_file(sampler, name, trace)
    /\ UNCHANGED <<tree, other, frames, bart>>

\* the sampler beside one new tree: first data set, first id, nmin = 1
InitSampler ==
    /\ NewTree
    /\ X = Mat(<< <<0, 0>>, <<0, 1>>, <<1, 0>>, <<1, 1>> >>)
    /\ nmin = 1
    /\ head = 0
    /\ other = NoTree
    /\ frames = <<>>
    /\ bart = Absent
    /\ sampler = NewSampler

NextSampler ==
    \/ add_step
    \/ run
    \/ sample
    \/ GetSamples
    \/ Modify
    \/ NewAxis
    \/ GenerateFromFile

SpecSampler == InitSampler /\ [][NextSampler]_vars

-----------------------------------------------------------------------------
\* A tree that is only grown and pruned

NextGrowPrune == grow \/ prune

SpecGrowPrune == Init /\ [][NextGrowPrune]_vars

----------------------------------------------------------------------------
\* The starting value of a new tree

\* set_starting_value on the tree as the constructor has left it
FirstBuild == last.op = "init" /\ set_starting_value

NextStart == FirstBuild \/ buildUniform

SpecStart == Init /\ [][NextStart]_vars

----------------------------------------------------------------------------
\* Vocabulary of the properties

\* the nodes reachable from the root
Live == Reach(nodes, head)

\* the (feature, threshold) pair a node carries
rule(nd, n) == <<nd[n].feature, nd[n].threshold>>

IsLeaf(nd, n) == nd[n].Left = None /\ nd[n].Right = None
HasTwo(nd, n) == nd[n].Left # None /\ nd[n].Right # None

NoDup(s) == \A i, j \in 1..Len(s) : i # j => s[i] # s[j]

\* the rows routed to a node
routed(nd, n) == {r \in Rows : includeY(nd, n)[r]}

\* the rows of node n that a rule (f, t) on n sends left / right
goLeft(nd, n, f, t)  == {r \in routed(nd, n) : X[r][f] <= t}
goRight(nd, n, f, t) == {r \in routed(nd, n) : X[r][f] >  t}

\* Parent, children and depth of every node are the same in nd2 as in nd1
SameShape(nd1, nd2) ==
    /\ DOMAIN nd1 = DOMAIN nd2
    /\ \A n \in DOMAIN nd1 :
          /\ nd2[n].Parent = nd1[n].Parent
          /\ nd2[n].Left   = nd1[n].Left
          /\ nd2[n].Right  = nd1[n].Right
          /\ nd2[n].depth  = nd1[n].depth

\* the last call ran split with a rule (directly or from grow)
SplitRan(l) == l.op \in {"split", "grow"} /\ l.feature # None

----------------------------------------------------------------------------
\* C1: once a call has returned, terminalNodes lists exactly the reachable
\* nodes without children and internalNodes exactly those with two children,
\* each once, so their lengths add up to the number of live nodes.
C1_CachesMatchTree ==
    /\ Elems(terminalNodes) = {n \in Live : IsLeaf(nodes, n)}
    /\ Elems(internalNodes) = {n \in Live : HasTwo(nodes, n)}
    /\ NoDup(terminalNodes)
    /\ NoDup(internalNodes)
    /\ Len(internalNodes) + Len(terminalNodes) = Cardinality(Live)

\* a prune has removed two leaves of a tree that still has internal nodes
C1_Witness ==
    last.op = "prune" /\ last.node # None /\ Len(internalNodes) >= 1

\* C2: a live node carries a rule if and only if it has two children; every
\* terminal node has no rule, also one that prune has made terminal.
C2_RuleIffTwoChildren ==
    \A n \in Live :
        (nodes[n].feature # None /\ nodes[n].threshold # None) <=> HasTwo(nodes, n)

\* C3: a split of a terminal node under which a child would receive fewer
\* than nmin rows returns (None, None) and leaves the tree as it was: the
\* parent has no children and no rule, every other node is unchanged and so
\* are both caches.
C3_SplitRollsBack ==
    [][ (/\ SplitRan(last')
         /\ IsLeaf(nodes, last'.node)
         /\ \/ Cardinality(goLeft(nodes, last'.node, last'.feature, last'.threshold)) < nmin
            \/ Cardinality(goRight(nodes, last'.node, last'.feature, last'.threshold)) < nmin)
        => LET parent == last'.node
           IN  /\ last'.ret = <<None, None>>
               /\ DOMAIN nodes' = DOMAIN nodes
               /\ IsLeaf(nodes', parent)
               /\ rule(nodes', parent) = <<None, None>>
               /\ nodes'[parent].Parent = nodes[parent].Parent
               /\ \A n \in DOMAIN nodes \ {parent} : nodes'[n] = nodes[n]
               /\ terminalNodes' = terminalNodes
               /\ internalNodes' = internalNodes ]_vars

\* a split of a leaf of a grown tree has been rolled back
C3_Witness ==
    SplitRan(last) /\ last.ret = <<None, None>> /\ Len(internalNodes) >= 1

\* C4: a split of a terminal node commits if and only if both children
\* receive at least nmin rows under the new rule; on commit it returns the
\* (left, right) children, the parent carries the rule and is in
\* internalNodes, and both children are in terminalNodes.
C4_SplitCommitsIffEnough ==
    [][ (SplitRan(last') /\ IsLeaf(nodes, last'.node))
        => LET parent    == last'.node
               feature   == last'.feature
               threshold == last'.threshold
               committed == last'.ret # <<None, None>>
           IN  /\ committed <=>
                     /\ Cardinality(goLeft(nodes, parent, feature, threshold)) >= nmin
                     /\ Cardinality(goRight(nodes, parent, feature, threshold)) >= nmin
               /\ committed =>
                     /\ last'.ret = <<nodes'[parent].Left, nodes'[parent].Right>>
                     /\ last'.ret[1] \notin DOMAIN nodes
                     /\ last'.ret[2] \notin DOMAIN nodes
                     /\ last'.ret[1] # last'.ret[2]
                     /\ nodes'[last'.ret[1]].Parent = parent
                     /\ nodes'[last'.ret[2]].Parent = parent
                     /\ nodes'[last'.ret[1]].is_left
                     /\ ~ nodes'[last'.ret[2]].is_left
                     /\ rule(nodes', parent) = <<feature, threshold>>
                     /\ parent \in Elems(internalNodes')
                     /\ last'.ret[1] \in Elems(terminalNodes')
                     /\ last'.ret[2] \in Elems(terminalNodes') ]_vars

\* a split has committed with a child that holds exactly nmin rows
C4_Witness ==
    /\ SplitRan(last)
    /\ last.ret # <<None, None>>
    /\ \E i \in 1..2 : Cardinality(routed(nodes, last.ret[i])) = nmin

\* C5: every terminal node has at least one routed row.
C5_NoEmptyLeaf ==
    \A i \in 1..Len(terminalNodes) : routed(nodes, terminalNodes[i]) # {}

\* C6: when change proposes a rule under which a child of the chosen node
\* would receive fewer than nmin rows, the node's rule after the call is the
\* one it had before; when both children receive at least nmin rows the new
\* rule is kept; no other node changes.
C6_ChangeKeepsOrReverts ==
    [][ (last'.op = "change" /\ last'.feature # None)
        => LET rnode == last'.node
               nl    == Cardinality(goLeft(nodes, rnode, last'.feature, last'.threshold))
               nr    == Cardinality(goRight(nodes, rnode, last'.feature, last'.threshold))
           IN  /\ DOMAIN nodes' = DOMAIN nodes
               /\ \A n \in DOMAIN nodes \ {rnode} : nodes'[n] = nodes[n]
               /\ IF nl < nmin \/ nr < nmin
                  THEN rule(nodes', rnode) = rule(nodes, rnode)
                  ELSE rule(nodes', rnode) = <<last'.feature, last'.threshold>> ]_vars

\* change has proposed a rule and the node does not carry it: it was reverted
C6_Witness ==
    /\ last.op = "change"
    /\ last.feature # None
    /\ rule(nodes, last.node) # <<last.feature, last.threshold>>

\* C7: change and swap create and remove no node: both caches and every
\* node's parent, children and depth are the same after the call as before.
C7_ChangeSwapKeepShape ==
    [][ last'.op \in {"change", "swap"}
        => /\ terminalNodes' = terminalNodes
           /\ internalNodes' = internalNodes
           /\ SameShape(nodes, nodes') ]_vars

\* a change was reverted in a tree with at least two internal nodes
C7_Witness ==
    /\ last.op = "change"
    /\ last.feature # None
    /\ rule(nodes, last.node) # <<last.feature, last.threshold>>
    /\ Len(internalNodes) >= 2

\* how often the pair v is carried by the nodes in S
Times(nd, S, v) == Cardinality({n \in S : rule(nd, n) = v})

\* the three nodes a swap of pnode is about
Three(nd, pnode) == {pnode, nd[pnode].Left, nd[pnode].Right}

\* the multiset of rules of the nodes in S is the same in nd1 and nd2
SameMultiset(nd1, nd2, S) ==
    \A n \in S : /\ Times(nd1, S, rule(nd1, n)) = Times(nd2, S, rule(nd1, n))
                 /\ Times(nd1, S, rule(nd2, n)) = Times(nd2, S, rule(nd2, n))

\* C8 as stated: every swap that selects a parent leaves the multiset of the
\* rules of the parent and its two children as it was, in the two-way
\* exchange and in the three-way rotation.
C8_SwapKeepsMultiset ==
    [][ (last'.op = "swap" /\ last'.node # None)
        => SameMultiset(nodes, nodes', Three(nodes, last'.node)) ]_vars

\* C8 amended: the two-way exchange leaves the multiset of the three rules as
\* it was; the three-way rotation gives the children's common rule to the
\* parent and the parent's former rule to both children, which keeps the set
\* of distinct rules and keeps the multiset only when parent and children
\* carried the same rule.
C8_SwapExchangeOrRotate ==
    [][ (last'.op = "swap" /\ last'.node # None)
        => LET pnode == last'.node
               lnode == nodes[pnode].Left
               rnode == nodes[pnode].Right
               S     == Three(nodes, pnode)
           IN  IF Len(last'.ret) = 3
               THEN /\ rule(nodes, lnode) = rule(nodes, rnode)
                    /\ rule(nodes', pnode) = rule(nodes, lnode)
                    /\ rule(nodes', lnode) = rule(nodes, pnode)
                    /\ rule(nodes', rnode) = rule(nodes, pnode)
                    /\ {rule(nodes', n) : n \in S} = {rule(nodes, n) : n \in S}
                    /\ SameMultiset(nodes, nodes', S)
                          <=> rule(nodes, pnode) = rule(nodes, lnode)
               ELSE /\ rule(nodes, lnode) # rule(nodes, rnode)
                    /\ SameMultiset(nodes, nodes', S) ]_vars

\* a three-way rotation has run on a parent whose rule differed from the
\* children's
C8_Witness ==
    /\ last.op = "swap"
    /\ Len(last.ret) = 3
    /\ rule(nodes, last.ret[1]) # rule(nodes, last.ret[2])

\* C9: prune removes the two children of a parent only if both were terminal;
\* afterwards the parent is terminal, the children are not reachable from
\* the root, each cache has one entry fewer, and the children, parent link
\* and rule of every other node are unchanged.
C9_PruneRemovesLeafPair ==
    [][ (last'.op = "prune" /\ nodes' # nodes)
        => LET parent == last'.node
               lnode  == nodes[parent].Left
               rnode  == nodes[parent].Right
           IN  /\ parent \in Live
               /\ HasTwo(nodes, parent)
               /\ IsLeaf(nodes, lnode)
               /\ IsLeaf(nodes, rnode)
               /\ IsLeaf(nodes', parent)
               /\ parent \in Elems(terminalNodes')
               /\ parent \notin Elems(internalNodes')
               /\ {lnode, rnode} \cap Reach(nodes', head') = {}
               /\ Reach(nodes', head') = Live \ {lnode, rnode}
               /\ Len(terminalNodes') = Len(terminalNodes) - 1
               /\ Len(internalNodes') = Len(internalNodes) - 1
               /\ \A n \in Live \ {parent, lnode, rnode} :
                     /\ nodes'[n].Left   = nodes[n].Left
                     /\ nodes'[n].Right  = nodes[n].Right
                     /\ nodes'[n].Parent = nodes[n].Parent
                     /\ rule(nodes', n)  = rule(nodes, n) ]_vars

\* a prune has removed a leaf pair below the root's level
C9_Witness ==
    last.op = "prune" /\ last.node # None /\ last.node # head

\* the parents of two childless children
LeafPairParents(nd) ==
    {n \in DOMAIN nd : HasTwo(nd, n) /\ IsLeaf(nd, nd[n].Left) /\ IsLeaf(nd, nd[n].Right)}

\* the nodes with two children one of which has two children
InternalPairParents(nd) ==
    {n \in DOMAIN nd : HasTwo(nd, n) /\ (HasTwo(nd, nd[n].Left) \/ HasTwo(nd, nd[n].Right))}

\* C10: prune without a parent of two terminal children, change without an
\* internal node and swap without an internal parent of an internal child
\* leave every node, every rule and both caches unchanged.
C10_NothingEligibleNothingDone ==
    [][ (\/ last'.op = "prune"  /\ LeafPairParents(nodes) = {}
         \/ last'.op = "change" /\ {n \in Live : HasTwo(nodes, n)} = {}
         \/ last'.op = "swap"   /\ InternalPairParents(nodes) = {})
        => /\ nodes' = nodes
           /\ terminalNodes' = terminalNodes
           /\ internalNodes' = internalNodes
           /\ last'.node = None ]_vars

\* swap has found nothing to do on a tree whose root is the only internal node
C10_Witness ==
    last.op = "swap" /\ last.node = None /\ Len(internalNodes) = 1

\* C11: a committed split of a terminal node followed at once by a prune that
\* selects the same parent gives both caches the id sequences they had
\* before the split; for a single-node tree that is [root] and [].
C11_SplitThenPruneRestores ==
    [][ (/\ SplitRan(last)
         /\ last.ret # <<None, None>>
         /\ last'.op = "prune"
         /\ last'.node = last.node)
        => /\ terminalNodes' = last.terminal0
           /\ internalNodes' = last.internal0
           /\ (last.node = head /\ last.internal0 = <<>>)
                 => (terminalNodes' = <<head>> /\ internalNodes' = <<>>) ]_vars

\* a prune has removed the pair of leaves that the most recent split created
\* below the root's level
C11_Witness ==
    /\ last.op = "prune"
    /\ last.node # None
    /\ last.node # head
    /\ last.node + 1 < NodeId
    /\ \E i \in 1..Len(last.terminal0) :
          /\ last.terminal0[i] = NodeId - 1
          /\ last.terminal0[i] \notin Live

\* a node and its ancestors
RECURSIVE AncOrSelf(_, _)
AncOrSelf(nd, n) ==
    IF n = None THEN {} ELSE {n} \cup AncOrSelf(nd, nd[n].Parent)

\* a comes before b in the pre-order that visits Right before Left
Precedes(nd, a, b) ==
    \/ a # b /\ a \in AncOrSelf(nd, b)
    \/ \E a1 \in AncOrSelf(nd, a), b1 \in AncOrSelf(nd, b) :
          /\ a1 # b1
          /\ nd[a1].Parent # None
          /\ nd[a1].Parent = nd[b1].Parent
          /\ ~ nd[a1].is_left
          /\ nd[b1].is_left

RightFirstPreOrder(nd, s) ==
    \A i, j \in 1..Len(s) : i < j => Precedes(nd, s[i], s[j])

\* the tree of three consecutive committed splits: root, root.Left,
\* root.Left.Right
ThreeSplits ==
    /\ Cardinality(Live) = 7
    /\ HasTwo(nodes, head)
    /\ nodes[head].Left = head + 1
    /\ nodes[head].Right = head + 2
    /\ HasTwo(nodes, head + 1)
    /\ nodes[head + 1].Left = head + 3
    /\ nodes[head + 1].Right = head + 4
    /\ HasTwo(nodes, head + 4)
    /\ nodes[head + 4].Left = head + 5
    /\ nodes[head + 4].Right = head + 6

\* C12: both caches are in pre-order with the right subtree before the left
\* one; splitting the root, root.Left and root.Left.Right gives terminal id
\* offsets [2, 6, 5, 3] and internal id offsets [0, 1, 4].
C12_RightFirstPreOrder ==
    /\ RightFirstPreOrder(nodes, terminalNodes)
    /\ RightFirstPreOrder(nodes, internalNodes)
    /\ ThreeSplits =>
          /\ terminalNodes = <<head + 2, head + 6, head + 5, head + 3>>
          /\ internalNodes = <<head, head + 1, head + 4>>

\* the three splits of the scenario have all committed
C12_Witness == ThreeSplits /\ SplitRan(last) /\ last.node = head + 4

\* C13 as stated: splitting the root of a single-node tree with enough rows
\* on each side yields one internal node, the root, and the terminal nodes
\* root id + 2 (right) and root id + 1 (left), in that order.
C13_RootSplitOffsets ==
    [][ (/\ SplitRan(last')
         /\ last'.node = head
         /\ Live = {head}
         /\ Cardinality(goLeft(nodes, head, last'.feature, last'.threshold)) >= nmin
         /\ Cardinality(goRight(nodes, head, last'.feature, last'.threshold)) >= nmin)
        => /\ internalNodes' = <<head>>
           /\ terminalNodes' = <<head + 2, head + 1>>
           /\ nodes'[head].Right = head + 2
           /\ nodes'[head].Left = head + 1 ]_vars

\* C13 amended: such a split yields one internal node, the root, and two
\* terminal nodes listed right child first, whose ids are the next two values
\* of the id counter (left, then right); they are root id + 1 and root id + 2
\* when no node has been allocated since the root was built.
C13_RootSplitNextIds ==
    [][ (/\ SplitRan(last')
         /\ last'.node = head
         /\ Live = {head}
         /\ Cardinality(goLeft(nodes, head, last'.feature, last'.threshold)) >= nmin
         /\ Cardinality(goRight(nodes, head, last'.feature, last'.threshold)) >= nmin)
        => /\ internalNodes' = <<head>>
           /\ terminalNodes' = <<NodeId + 1, NodeId>>
           /\ nodes'[head].Right = NodeId + 1
           /\ nodes'[head].Left = NodeId
           /\ NodeId > head
           /\ NodeId = head + 1 => terminalNodes' = <<head + 2, head + 1>> ]_vars

\* the root of a newly built tree has been split
C13_Witness ==
    /\ SplitRan(last)
    /\ last.node = head
    /\ last.ret = <<head + 1, head + 2>>
    /\ terminalNodes = <<head + 2, head + 1>>

\* the Id attributes met on the way from node n down through Left and Right,
\* one entry for every visit
RECURSIVE IdsFrom(_, _)
IdsFrom(nd, n) ==
    IF n = None THEN <<>>
    ELSE <<nd[n].Id>> \o IdsFrom(nd, nd[n].Left) \o IdsFrom(nd, nd[n].Right)

\* the Id attributes of the live nodes of all trees of the process: those of
\* the tree the caller is on, then those of the other tree
AllIds(nd, root, o) ==
    IdsFrom(nd, root) \o (IF o = NoTree THEN <<>> ELSE IdsFrom(nd, o.head))

\* C14: ids are never reused and increase in allocation order, over all
\* trees of the process: the counter never decreases, every live id of
\* either tree is below it, every node created by a step gets an id at or
\* above the counter's value before the step (so above every id allocated
\* before, also those of discarded nodes) and below its value after it, a
\* split consumes two ids whether it commits or rolls back and its children
\* are nodes that did not exist, the head of a tree constructed next to
\* another takes the counter's value and one id, and the ids met when both
\* trees are walked from their heads are pairwise distinct.
C14_IdsNeverReused ==
    [][ /\ NodeId' >= NodeId
        /\ \A n \in DOMAIN nodes : n < NodeId /\ nodes[n].Id = n
        /\ \A n \in DOMAIN nodes' \ DOMAIN nodes :
              NodeId <= n /\ n < NodeId' /\ nodes'[n].Id = n
        /\ SplitRan(last') => NodeId' = NodeId + 2
        /\ (SplitRan(last') /\ last'.ret # <<None, None>>) =>
              /\ Elems(last'.ret) \cap DOMAIN nodes = {}
              /\ Elems(last'.ret) \subseteq Reach(nodes', head')
        /\ (other = NoTree /\ other' # NoTree) =>
              /\ other'.head = NodeId
              /\ other'.head \notin DOMAIN nodes
              /\ NodeId' = NodeId + 1
        /\ NoDup(AllIds(nodes, head, other))
        /\ NoDup(AllIds(nodes', head', other'))
        /\ Len(AllIds(nodes', head', other')) = Cardinality(DOMAIN nodes') ]_vars

\* two trees live in the process and their ids interleave: a split has
\* committed on the tree constructed first, after the other tree was
\* constructed and after ids had been given to nodes of the first tree that
\* are discarded by now
C14_Witness ==
    /\ other # NoTree
    /\ head < other.head
    /\ SplitRan(last)
    /\ last.ret # <<None, None>>
    /\ other.head < last.ret[1]
    /\ \E n \in (head + 1)..(other.head - 1) : n \notin DOMAIN nodes

\* the depth of every node is its parent's depth + 1, the root's is 0
DepthOK(nd) ==
    \A n \in DOMAIN nd :
        nd[n].depth = IF nd[n].Parent = None THEN 0 ELSE nd[nd[n].Parent].depth + 1

\* C15: the root has depth 0, every other live node its parent's depth + 1,
\* and no call changes the depth of a node that exists before and after it.
C15_DepthFixed ==
    [][ /\ DepthOK(nodes)
        /\ DepthOK(nodes')
        /\ nodes'[head'].depth = 0
        /\ \A n \in DOMAIN nodes \cap DOMAIN nodes' :
              nodes'[n].depth = nodes[n].depth ]_vars

\* a swap has run on a tree with a node at depth 2
C15_Witness ==
    /\ last.op = "swap"
    /\ last.node # None
    /\ \E n \in Live : nodes[n].depth = 2

\* row r satisfies the inequality of every edge from n up to the root
PathOK(nd, n, r) ==
    \A m \in AncOrSelf(nd, n) :
        nd[m].Parent # None =>
            LET p == nd[m].Parent
            IN  IF nd[m].is_left
                THEN X[r][nd[p].feature] <= nd[p].threshold
                ELSE X[r][nd[p].feature] >  nd[p].threshold

\* C16: the row mask of filter(node) is true for a row exactly when, on every
\* edge from node up to the root, the row's value of the ancestor's feature
\* is <= the ancestor's threshold through a left child and > it through a
\* right child; for the root every row is included; the row mask is the
\* conjunction over the columns of the column-wise mask.
C16_FilterFollowsPath ==
    /\ \A n \in Live : \A r \in Rows :
          /\ includeY(nodes, n)[r] <=> PathOK(nodes, n, r)
          /\ includeY(nodes, n)[r] <=> \A c \in Features : includeX(nodes, n)[r][c]
    /\ \A r \in Rows : includeY(nodes, head)[r]

\* a node two levels down receives some rows and not others
C16_Witness ==
    \E n \in Live :
        /\ nodes[n].depth = 2
        /\ routed(nodes, n) # {}
        /\ routed(nodes, n) # routed(nodes, nodes[n].Parent)

\* C17: whenever prule returns a rule for a node, the threshold is the value
\* of the chosen feature in some row that is routed to that node.
C17_ThresholdFromRoutedRow ==
    [][ (last'.op \in {"grow", "change"} /\ last'.feature # None)
        => \E r \in routed(nodes, last'.node) :
              X[r][last'.feature] = last'.threshold ]_vars

----------------------------------------------------------------------------
\* CartTree.logprior and CartTree.loglik: the counts they take from filter

\* nfeatures = np.sum(np.sum(fxl, axis=0) > 1)
nfeatures(nd, node) ==
    LET fxl == includeX(nd, node)
    IN  Cardinality({c \in Features : Cardinality({r \in Rows : fxl[r][c]}) > 1})

\* npts = np.sum(fyl)
npts(nd, node) == npsum(includeY(nd, node))

\* the loop of loglik over the terminal nodes: a node with npts == 0 is passed
\* over by `continue`, every other node adds its term, and nothing is raised
loglik(nd, tn) ==
    [raised |-> FALSE,
     summed |-> SelectSeq(tn, LAMBDA node : npts(nd, node) # 0)]

\* the values a feature takes among the rows routed to a node
ValuesAt(nd, n, c) == {X[r][c] : r \in routed(nd, n)}

\* C18: for every internal node the feature count of logprior is the number
\* of features with more than one distinct value among the rows routed to the
\* node, and its row count is the number of rows routed to the node.
C18_PriorCounts ==
    \A i \in 1..Len(internalNodes) :
        LET node == internalNodes[i]
        IN  /\ nfeatures(nodes, node) =
                  Cardinality({c \in Features : Cardinality(ValuesAt(nodes, node, c)) > 1})
            /\ npts(nodes, node) = Cardinality(routed(nodes, node))

\* C19: when loglik meets a terminal node with zero routed rows the
\* evaluation fails loudly instead of leaving that node out of the sum.
C19_EmptyLeafRaises ==
    (\E i \in 1..Len(terminalNodes) : npts(nodes, terminalNodes[i]) = 0)
        => loglik(nodes, terminalNodes).raised

----------------------------------------------------------------------------
\* The result of change, and what swap modifies

\* what a caller can read the pair (feature, threshold) from: the pair itself
\* or a node that carries it
Reflects(nd, ret, feature, threshold) ==
    \/ ret = <<feature, threshold>>
    \/ /\ Len(ret) = 1
       /\ ret[1] \in DOMAIN nd
       /\ rule(nd, ret[1]) = <<feature, threshold>>

\* C25: a change whose proposed rule leaves a child with fewer than nmin rows
\* returns a result that reflects the attempted feature and threshold, and
\* leaves both caches as they were.
C25_ChangeReturnsAttempt ==
    [][ (last'.op = "change" /\ last'.feature # None)
        => LET rnode == last'.node
               nl    == Cardinality(goLeft(nodes, rnode, last'.feature, last'.threshold))
               nr    == Cardinality(goRight(nodes, rnode, last'.feature, last'.threshold))
           IN  (nl < nmin \/ nr < nmin)
               => /\ Reflects(nodes', last'.ret, last'.feature, last'.threshold)
                  /\ terminalNodes' = terminalNodes
                  /\ internalNodes' = internalNodes ]_vars

\* C29: swap modifies nothing unless it selects a parent; the parent is
\* internal and has an internal child; if its two children carry the same
\* rule the parent takes that rule and both children take the parent's
\* former rule; otherwise one child that is internal exchanges rules with
\* the parent and the other child is unchanged; every node other than the
\* parent and its two children is unchanged.
C29_SwapModifiesOnlyPair ==
    [][ last'.op = "swap"
        => IF last'.node = None
           THEN nodes' = nodes
           ELSE LET pnode == last'.node
                    lnode == nodes[pnode].Left
                    rnode == nodes[pnode].Right
                IN  /\ HasTwo(nodes, pnode)
                    /\ HasTwo(nodes, lnode) \/ HasTwo(nodes, rnode)
                    /\ DOMAIN nodes' = DOMAIN nodes
                    /\ \A n \in DOMAIN nodes \ {pnode, lnode, rnode} : nodes'[n] = nodes[n]
                    /\ IF rule(nodes, lnode) = rule(nodes, rnode)
                       THEN /\ rule(nodes', pnode) = rule(nodes, lnode)
                            /\ rule(nodes', lnode) = rule(nodes, pnode)
                            /\ rule(nodes', rnode) = rule(nodes, pnode)
                       ELSE \E c \in {lnode, rnode} :
                               /\ c = last'.child
                               /\ HasTwo(nodes, c)
                               /\ rule(nodes', c) = rule(nodes, pnode)
                               /\ rule(nodes', pnode) = rule(nodes, c)
                               /\ \A o \in {lnode, rnode} \ {c} : nodes'[o] = nodes[o] ]_vars

\* a swap has given the rule of a parent to both of its children, and the
\* children carry a rule that the parent does not
C29_Witness ==
    /\ last.op = "swap"
    /\ Len(last.ret) = 3
    /\ rule(nodes, last.ret[2]) = rule(nodes, last.ret[3])
    /\ rule(nodes, last.ret[1]) # rule(nodes, last.ret[3])

----------------------------------------------------------------------------
\* prule without data

\* the rows that pass the tests the ancestors of n make on feature f
routedFor(nd, n, f) ==
    {r \in Rows :
        \A m \in AncOrSelf(nd, n) :
            (nd[m].Parent # None /\ nd[nd[m].Parent].feature = f)
            => LET p == nd[m].Parent
               IN  IF nd[m].is_left
                   THEN X[r][f] <= nd[p].threshold
                   ELSE X[r][f] >  nd[p].threshold}

\* the call recorded in l is a grow, change or buildUniform in which prule
\* returned (None, None)
NoRule(l) ==
    /\ l.node # None
    /\ l.feature = None
    /\ \/ l.op \in {"grow", "change"}
       \/ l.op = "buildUniform" /\ l.ret = <<None, None>>

\* every ancestor of n carries a rule
RuledPath(nd, n) ==
    \A m \in AncOrSelf(nd, n) :
        nd[m].Parent # None => nd[nd[m].Parent].feature # None

\* C30: for the node of every grow, change and buildUniform call and every
\* feature it can draw, prule returns (None, None) when no row passes the
\* tests that the node's ancestors make on that feature, and, below
\* ancestors that all carry a rule, a rule otherwise; a call in which prule
\* returned (None, None) leaves every node, rule, cache and the id counter
\* as they were, and schedules no further call.
C30_NoRuleNoChange ==
    [][ /\ (last'.op \in {"grow", "change", "buildUniform"} /\ last'.node # None)
           => \A f \in Features :
                 LET n == last'.node
                 IN  IF routedFor(nodes, n, f) = {}
                     THEN pruleDrawn(nodes, n, f) = {<<None, None>>}
                     ELSE RuledPath(nodes, n)
                          => <<None, None>> \notin pruleDrawn(nodes, n, f)
        /\ NoRule(last')
           => /\ nodes' = nodes
              /\ terminalNodes' = terminalNodes
              /\ internalNodes' = internalNodes
              /\ NodeId' = NodeId
              /\ RuledPath(nodes, last'.node)
                 => \E f \in Features : routedFor(nodes, last'.node, f) = {}
              /\ last'.op = "buildUniform" => \A i \in 1..Len(frames') : frames'[i].node # last'.node ]_vars

\* a call of buildUniform on a node without rows has returned because prule
\* returned (None, None)
C30_Witness ==
    /\ last.op = "buildUniform"
    /\ last.ret = <<None, None>>
    /\ last.feature = None
    /\ routed(nodes, last.node) = {}

----------------------------------------------------------------------------
\* Sampler.run

\* what n iterations over k steps call: 1, ..., k, n times over
Rounds(k, n) == [c \in 1..(k * n) |-> ((c - 1) % k) + 1]

\* C26: a run that has ended has performed burnin + thin * nsamples
\* iterations, and the do_step calls are those of that many iterations, each
\* over every step in the order the steps were added.
C26_RunIterates ==
    sampler.pc \in {"done", "raised"}
    => /\ sampler.niter = sampler.burnin + sampler.thin * sampler.sample_size
       /\ sampler.calls = Rounds(Len(sampler.steps), sampler.niter)

\* the names of the tracked parameters
Tracked == {j \in 1..Len(sampler.steps) : sampler.steps[j].track}

\* C27: a run does not fail; when it has ended the samples dictionary has an
\* entry for each tracked parameter and for no other, each entry holds
\* nsamples values, the value at index i being the draw that was the current
\* one after burnin + thin * (i + 1) iterations, and every step, tracked or
\* not, has been stepped once in every iteration.
C27_TrackedOnly ==
    /\ sampler.pc # "raised"
    /\ sampler.pc = "done"
       => /\ DOMAIN sampler.samples = Tracked
          /\ \A name \in Tracked :
                LET a == sampler.arrays[sampler.samples[name]]
                IN  /\ Len(a) = sampler.sample_size
                    /\ \A k \in 1..Len(a) : a[k] = sampler.burnin + sampler.thin * k
          /\ \A j \in 1..Len(sampler.steps) : sampler.value[j] = sampler.niter

\* C28: the array get_samples returns is not the stored one, and overwriting
\* an element of it changes no array held in the samples dictionary.
C28_GetSamplesCopies ==
    [][ /\ sampler'.got # None
           => \A name \in DOMAIN sampler'.samples : sampler'.samples[name] # sampler'.got
        /\ (sampler.got # None /\ sampler'.got = sampler.got
                /\ sampler'.arrays[sampler.got] # sampler.arrays[sampler.got])
           => /\ sampler'.samples = sampler.samples
              /\ \A name \in DOMAIN sampler.samples :
                    sampler'.arrays[sampler.samples[name]]
                        = sampler.arrays[sampler.samples[name]] ]_vars

\* the caller has overwritten an element of the array get_samples returned,
\* and the stored array still holds the draw
C28_Witness ==
    /\ sampler.pc = "done"
    /\ sampler.got # None
    /\ \E k \in DOMAIN sampler.arrays[sampler.got] :
          /\ sampler.arrays[sampler.got][k] = 0
          /\ sampler.arrays[sampler.samples[sampler.gotName]][k] > 0

----------------------------------------------------------------------------
\* Trees share no node

\* C24: no node is reachable from the roots of two trees, and a split, grow,
\* prune, change or swap on one tree leaves the head, both caches and every
\* node of the other tree, with its rule and links, as they were.
C24_TreesShareNothing ==
    [][ other # NoTree
        => /\ Reach(nodes, head) \cap Reach(nodes, other.head) = {}
           /\ Elems(other.terminalNodes) \cup Elems(other.internalNodes)
                 = Reach(nodes, other.head)
           /\ (last'.op \in {"split", "grow", "prune", "change", "swap"} /\ head' = head)
              => /\ other' = other
                 /\ \A n \in Reach(nodes, other.head) :
                       n \in DOMAIN nodes' /\ nodes'[n] = nodes[n] ]_vars

\* both trees have been grown, and the last call has changed the tree it was
\* made on
C24_Witness ==
    /\ other # NoTree
    /\ Len(other.internalNodes) >= 1
    /\ Len(internalNodes) >= 1
    /\ last.op \in {"prune", "change", "swap"}
    /\ last.node # None

----------------------------------------------------------------------------
\* The ensemble

\* the vector has an element equal to n / d (d > 0) and none below it
MinIs(y, n, d) ==
    /\ \E r \in DOMAIN y : y[r].den # 0 /\ y[r].num * d = n * y[r].den
    /\ \A r \in DOMAIN y : y[r].den # 0 /\ y[r].num * d >= n * y[r].den

\* the vector has an element equal to n / d (d > 0) and none above it
MaxIs(y, n, d) ==
    /\ \E r \in DOMAIN y : y[r].den # 0 /\ y[r].num * d = n * y[r].den
    /\ \A r \in DOMAIN y : y[r].den # 0 /\ y[r].num * d <= n * y[r].den

\* C21: once BartTrees.__init__ has run on an outcome vector with at least
\* two distinct values, the minimum of the ensemble's y is -1/2 and its
\* maximum is 1/2.
C21_RescaledToHalf ==
    (bart.pc \in {"built", "raised"} /\ npmin(bart.y0) # npmax(bart.y0))
    => /\ MinIs(bart.y, 0 - 1, 2)
       /\ MaxIs(bart.y, 1, 2)

\* C22: once BartTrees.__init__ has run, the ensemble has m member trees and
\* each of them holds the a of the ensemble, 4 * k^2 * m.
C22_MembersHoldA ==
    bart.pc \in {"built", "raised"}
    => /\ bart.pc = "built"
       /\ bart.a = Double(4 * bart.k * bart.k * bart.m, 0)
       /\ Len(bart.trees) = bart.m
       /\ \A j \in 1..Len(bart.trees) : bart.trees[j].a = bart.a

\* the sum of a list of numbers
RECURSIVE SumOf(_)
SumOf(s) == IF s = <<>> THEN 0 ELSE Head(s) + SumOf(Tail(s))

\* C23: a call of the ensemble's fit returns, has a fitted value for each of
\* the m members, and its running total is the sum of those fitted values.
C23_TotalIsSumOfFits ==
    (bart.pc = "built" /\ bart.fit # "none")
    => /\ bart.fit = "returned"
       /\ Len(bart.mtrainfits) = bart.m
       /\ bart.mtotalfit = SumOf(bart.mtrainfits)

-----------------------------------------------------------------------------
\* C34: after every call of grow, prune, change and swap the tree is a full
\* binary tree: every live node has no child or two, every child names the
\* node that holds it as its Parent and its is_left says on which side it
\* hangs, and there is one terminal node more than there are internal nodes.
C34_FullBinaryTree ==
    /\ \A n \in Live :
          /\ IsLeaf(nodes, n) \/ HasTwo(nodes, n)
          /\ HasTwo(nodes, n) =>
                /\ nodes[n].Left # nodes[n].Right
                /\ nodes[nodes[n].Left].Parent = n
                /\ nodes[nodes[n].Left].is_left
                /\ nodes[nodes[n].Right].Parent = n
                /\ ~nodes[nodes[n].Right].is_left
    /\ nodes[head].Parent = None
    /\ Len(terminalNodes) = Len(internalNodes) + 1
    /\ terminalNodes # <<>>

\* a swap has run on a tree with three internal nodes
C34_Witness ==
    last.op = "swap" /\ last.node # None /\ Len(internalNodes) = 3

-----------------------------------------------------------------------------
\* C35: the terminal nodes partition the data: filter routes every row of X
\* to exactly one terminal node, and the rows of the two children of an
\* internal node are disjoint and together are the rows of that node.
C35_LeavesPartitionRows ==
    /\ \A r \in Rows :
          Cardinality({i \in 1..Len(terminalNodes) :
                          r \in routed(nodes, terminalNodes[i])}) = 1
    /\ \A i \in 1..Len(internalNodes) :
          LET n == internalNodes[i]
              l == routed(nodes, nodes[n].Left)
              r == routed(nodes, nodes[n].Right)
          IN  l \cap r = {} /\ l \cup r = routed(nodes, n)

\* a change has been kept on a tree with two internal nodes, both of which
\* test the same feature
C35_Witness ==
    /\ last.op = "change" /\ last.feature # None
    /\ Len(internalNodes) = 2
    /\ nodes[internalNodes[1]].feature = nodes[internalNodes[2]].feature
    /\ rule(nodes, last.node) = <<last.feature, last.threshold>>

-----------------------------------------------------------------------------
\* C37: every internal node carries a feature and a threshold, so filter
\* never tests the data against a rule that is not set.
C37_InternalNodesHaveRule ==
    \A n \in Live :
        HasTwo(nodes, n) => nodes[n].feature # None /\ nodes[n].threshold # None

\* a three-way swap has run on a parent one of whose children is terminal
C37_Witness ==
    /\ last.op = "swap" /\ last.node # None /\ last.child = None
    /\ IsLeaf(nodes, nodes[last.node].Left) \/ IsLeaf(nodes, nodes[last.node].Right)

-----------------------------------------------------------------------------
\* C38: a tree with an internal node has a parent whose two children are
\* terminal, and a call of prune changes the tree exactly when the tree has
\* an internal node: on the single-node tree it does nothing.
C38_PruneActsIffInternal ==
    [][ last'.op = "prune"
        => /\ (internalNodes # <<>>) = (LeafPairParents(release(nodes, head)) # {})
           /\ (internalNodes # <<>>)
                 = (<<nodes', terminalNodes', internalNodes'>>
                       # <<nodes, terminalNodes, internalNodes>>)
           /\ (internalNodes = <<>>) = (Cardinality(Live) = 1) ]_vars

\* prune has been called on the single-node tree that an earlier prune left
C38_Witness ==
    /\ last.op = "prune" /\ last.node = None
    /\ last.internal0 = <<>>
    /\ NodeId > head + 1

-----------------------------------------------------------------------------
\* C36: on a tree that started as a single node and has only been grown and
\* pruned, every terminal node of a tree with more than one node has at
\* least min_samples_leaf routed rows.
C36_GrownLeavesHoldNmin ==
    Cardinality(Live) > 1
    => \A i \in 1..Len(terminalNodes) :
          Cardinality(routed(nodes, terminalNodes[i])) >= nmin

\* prune has turned a parent below the root into a terminal node, and
\* another terminal node holds exactly min_samples_leaf rows
C36_Witness ==
    /\ last.op = "prune" /\ last.node # None /\ last.node # head
    /\ IsLeaf(nodes, last.node)
    /\ \E i \in 1..Len(terminalNodes) :
          Cardinality(routed(nodes, terminalNodes[i])) = nmin

-----------------------------------------------------------------------------
\* the heap after swap has run again with the same choices: parent pnode
\* and, when the children differ in their rules, child cnode
swapAgain(nd, pnode, cnode) ==
    IF sameRule(nd, nd[pnode].Left, nd[pnode].Right)
    THEN swapBoth(nd, pnode)
    ELSE swapOne(nd, pnode, cnode)

\* every node carries the same rule in nd1 and nd2
SameRules(nd1, nd2) ==
    /\ DOMAIN nd1 = DOMAIN nd2
    /\ \A n \in DOMAIN nd1 : rule(nd1, n) = rule(nd2, n)

\* C33: swap undoes itself: a second swap with the same parent selected
\* (and, after an exchange between the parent and one child, the same
\* child) gives every node the rule it had before the first swap.
C33_SwapTwiceRestores ==
    [][ (last'.op = "swap" /\ last'.node # None)
        => SameRules(swapAgain(nodes', last'.node,
                               IF last'.child = None
                               THEN nodes'[last'.node].Left
                               ELSE last'.child),
                     nodes) ]_vars

-----------------------------------------------------------------------------
\* C32: when set_starting_value has run buildUniform on the root of a tree
\* that had internal nodes and the call has returned, terminalNodes lists
\* exactly the reachable nodes without children and internalNodes exactly
\* those with two children.
C32_RebuildLeavesConsistent ==
    ( /\ frames = <<>>
      /\ last.op = "buildUniform"
      /\ last.node = head
      /\ last.internal0 # <<>> )
    => /\ Elems(terminalNodes) = {n \in Live : IsLeaf(nodes, n)}
       /\ Elems(internalNodes) = {n \in Live : HasTwo(nodes, n)}

-----------------------------------------------------------------------------
\* the calls of buildUniform that are still to be made
Pending == IF last.op = "init" THEN <<[node |-> head, depth |-> 0]>> ELSE frames

\* the measure of the calls in fr: 2 * (routed rows) - 1 for each
RECURSIVE Weight(_, _)
Weight(nd, fr) ==
    IF fr = <<>> THEN 0
    ELSE 2 * Cardinality(routed(nd, Head(fr).node)) - 1 + Weight(nd, Tail(fr))

\* C31: buildUniform started on the root of a new tree with
\* min_samples_leaf >= 1 terminates: every call lowers a measure of the
\* pending calls that is never negative. A call adds pending calls only for
\* the two children of a split it has committed, one level deeper, and
\* every terminal node of a tree with more than one node has at least
\* min_samples_leaf routed rows.
C31_BuildTerminates ==
    [][ last'.op = "buildUniform"
        => LET call      == Head(Pending)
               committed == Len(last'.ret) = 2 /\ last'.ret[1] # None /\ last'.ret[2] # None
           IN  /\ nmin >= 1
               /\ last'.node = call.node
               /\ Weight(nodes', frames') < Weight(nodes, Pending)
               /\ Weight(nodes', frames') >= 0
               /\ IF committed
                  THEN /\ frames' = << [node |-> last'.ret[1], depth |-> call.depth + 1],
                                       [node |-> last'.ret[2], depth |-> call.depth + 1] >>
                                    \o Tail(Pending)
                       /\ nodes'[call.node].Left = last'.ret[1]
                       /\ nodes'[call.node].Right = last'.ret[2]
                  ELSE frames' = Tail(Pending)
               /\ Cardinality(Reach(nodes', head)) > 1
                  => \A i \in 1..Len(terminalNodes') :
                        Cardinality(routed(nodes', terminalNodes'[i])) >= nmin ]_vars

\* the build has returned and has given every row a terminal node of its own
C31_Witness ==
    /\ frames = <<>>
    /\ last.op = "buildUniform"
    /\ Len(terminalNodes) = n_samples
    /\ \A i \in 1..Len(terminalNodes) :
          Cardinality(routed(nodes, terminalNodes[i])) = 1

====
